---- MODULE Spec2Model ----
(***************************************************************************)
(* NoteStore: the note storage engine that splits every note between a     *)
(* metadata store (rows keyed by note id) and a file store (raw text keyed *)
(* by a path resolved from the metadata).  Each engine call is a small     *)
(* process whose steps are its awaited store calls; calls of different     *)
(* processes interleave at those awaits.                                   *)
(***************************************************************************)
EXTENDS Integers, Sequences, FiniteSets, TLC

VARIABLES
  meta,     \* metadata store: a function from the ids that have a row to the row
  files,    \* file store: a function from the paths that have an entry to raw text
  call,     \* per caller: the engine call it runs, its locals and its response
  ncalls    \* number of engine calls started so far

vars == <<meta, files, call, ncalls>>

----------------------------------------------------------------------------
(* Bounds *)

\* Callers that may have an engine call in flight at the same time.
NumProcs == 2
\* Engine calls started in one behaviour.
MaxCalls == 2

Procs == 1..NumProcs

----------------------------------------------------------------------------
(* Data *)

Ids == {"a", "b"}
\* The order in which the metadata store lists its rows.
IdOrder == <<"a", "b">>
Fnames == {"f", "g"}
WsRoot == "/ws"
NL == "\n"
Delim == <<"-", "-", "-">>

\* Options: <<>> is undefined/null, <<v>> is the value v.
None == <<>>
Some(v) == <<v>>
IsSome(o) == Len(o) = 1
Val(o) == o[1]

\* Titles and bodies are texts: sequences of characters.
PlainTitle == <<"t">>
DashTitle == <<"t", "-", "-", "-">>
StaleHash == Some(<<"o", "l", "d">>)

Note(id, fname, title, stub, body, hash) ==
  [id |-> id, fname |-> fname, title |-> title, stub |-> stub,
   body |-> body, contentHash |-> hash]

\* The notes callers pass to write and writeMetadata.
Notes ==
  { Note("a", "f", PlainTitle, FALSE, <<"x">>, None),
    Note("a", "g", DashTitle, FALSE, <<>>, StaleHash),
    Note("b", "g", PlainTitle, FALSE, <<"-", "-", "-", NL, "x">>, None),
    Note("b", "f", PlainTitle, TRUE, <<>>, None) }

\* Raw texts a file may hold before the engine ever wrote it (no frontmatter).
ForeignTexts == {<<"-", "-", "-", NL, "x">>}

\* FindNoteOpts: an optional fname to match.
FindOpts == {[fname |-> None], [fname |-> Some("f")]}

----------------------------------------------------------------------------
(* Collaborators of the engine *)

\* NoteUtils.getFullPath: the file store key of a note, from its metadata.
getFullPath(note, wsRoot) == <<wsRoot, note.fname, ".md">>

Paths == {getFullPath([fname |-> f], WsRoot) : f \in Fnames}

\* The frontmatter lines NoteUtils.serialize writes for a note; the stub
\* flag is left out of them (excludeStub).
HeaderLines(note) == <<"i", "d", ":", note.id, NL>> \o note.title \o <<NL>>

\* NoteUtils.serialize: the header span, a newline, the body.
serialize(note) == Delim \o <<NL>> \o HeaderLines(note) \o Delim \o <<NL>> \o note.body

\* genHash: a digest of the whole text it is given.
genHash(text) == <<"h">> \o text

\* Errors: one shape for every error of the engine and of the stores.
Err(status, severity, fpath, key) ==
  [status |-> status, severity |-> severity, fpath |-> fpath, key |-> key]

MetaNotFound(key) == Err("META_NOT_FOUND", "MINOR", None, key)
MetaBackendError(key) == Err("META_BACKEND_ERROR", "FATAL", None, key)
FileNotFound(fpath) == Err("FILE_NOT_FOUND", "MINOR", Some(fpath), "")
FileBackendError(fpath) == Err("FILE_BACKEND_ERROR", "FATAL", Some(fpath), "")

\* RespV3
RespData(d) == [error |-> None, data |-> Some(d)]
RespError(e) == [error |-> Some(e), data |-> None]

\* IDataStore.get
MetaStoreGet(key, fault) ==
  IF fault THEN RespError(MetaBackendError(key))
  ELSE IF key \in DOMAIN meta THEN RespData(meta[key])
  ELSE RespError(MetaNotFound(key))

\* IDataStore.find: the rows that match, in the store's order.
Matches(row, opts) == IsSome(opts.fname) => row.fname = Val(opts.fname)

RECURSIVE RowsFrom(_, _)
RowsFrom(i, opts) ==
  IF i > Len(IdOrder) THEN <<>>
  ELSE LET id == IdOrder[i] IN
       (IF id \in DOMAIN meta /\ Matches(meta[id], opts) THEN <<meta[id]>> ELSE <<>>)
         \o RowsFrom(i + 1, opts)

MetaStoreFind(opts, fault) ==
  IF fault THEN RespError(MetaBackendError("")) ELSE RespData(RowsFrom(1, opts))

\* IFileStore.read
FileStoreRead(fpath, fault) ==
  IF fault THEN RespError(FileBackendError(fpath))
  ELSE IF fpath \in DOMAIN files THEN RespData(files[fpath])
  ELSE RespError(FileNotFound(fpath))

\* The stores after a write or a delete that succeeded.
Put(store, k, v) == [x \in DOMAIN store \cup {k} |-> IF x = k THEN v ELSE store[x]]
Drop(store, k) == [x \in DOMAIN store \ {k} |-> store[x]]

----------------------------------------------------------------------------
(* The engine's calls *)

\* One store call a process made: which store, which call, did it succeed.
IO(store, op, ok) == [store |-> store, op |-> op, ok |-> ok]

\* The locals of one run of get.
NewGet(key) ==
  [key |-> key, pc |-> "getMetadata", metadata |-> None, fpath |-> None,
   raw |-> None, io |-> <<>>, resp |-> None]

IdleCall ==
  [op |-> "none", pc |-> "idle", seq |-> 0, key |-> "", note |-> None,
   opts |-> None, locs |-> None, metadata |-> None, fpath |-> None,
   io |-> <<>>, gets |-> <<>>, settled |-> <<>>, resp |-> None]

NewCall(op) == [IdleCall EXCEPT !.op = op, !.seq = ncalls + 1]

Free(p) == call[p].pc \in {"idle", "done"}

\* A caller invokes the engine.  Callers are interchangeable: the call runs
\* in the free slot whose response is the oldest.
Begin(p) ==
  /\ Free(p)
  /\ \A q \in Procs : Free(q) =>
       \/ call[p].seq < call[q].seq
       \/ call[p].seq = call[q].seq /\ p <= q
  /\ ncalls < MaxCalls
  /\ ncalls' = ncalls + 1

Done(c, resp) == [c EXCEPT !.pc = "done", !.resp = Some(resp)]

HasError(resp) == IsSome(resp.error)
HasData(resp) == IsSome(resp.data)

\* The frontmatter pattern of get, anchored at the start of the text: the
\* opening delimiter, one or more characters of any kind, as few as
\* possible, and the next delimiter.  <<>> when the text does not match.
DelimAt(s, i) == i >= 1 /\ i + 2 <= Len(s) /\ SubSeq(s, i, i + 2) = Delim

\* Mutant of Capture: the opening delimiter alone is taken for the span.
CaptureOpening(raw) == IF DelimAt(raw, 1) THEN Some(SubSeq(raw, 1, 3)) ELSE None

Capture(raw) ==
  IF DelimAt(raw, 1) /\ \E j \in 5..Len(raw) : DelimAt(raw, j)
  THEN LET j == CHOOSE j \in 5..Len(raw) :
                  DelimAt(raw, j) /\ \A k \in 5..(j - 1) : ~DelimAt(raw, k)
       IN  Some(SubSeq(raw, 1, j + 2))
  ELSE None

\* slice(from) on a text indexed from 0.
Slice(raw, from) == SubSeq(raw, from + 1, Len(raw))

BadParse(fpath, key) == Err("BAD_PARSE_FOR_NOTE", "MINOR", Some(fpath), key)

\* Mutant of GetParse: a contentHash stored in the row is kept.
GetParseStoredHash(metadata, fpath, key, raw) ==
  LET capture == Capture(raw) IN
  IF IsSome(capture)
  THEN LET offset == Len(Val(capture))
           body == Slice(raw, offset + 1)
       IN RespData([id |-> metadata.id, fname |-> metadata.fname,
                    title |-> metadata.title, stub |-> metadata.stub,
                    body |-> body,
                    contentHash |-> IF IsSome(metadata.contentHash)
                                    THEN metadata.contentHash
                                    ELSE Some(genHash(raw))])
  ELSE RespError(BadParse(fpath, key))

\* get, from the raw text on: parse the body and merge it with the metadata.
GetParse(metadata, fpath, key, raw) ==
  LET capture == Capture(raw) IN
  IF IsSome(capture)
  THEN LET offset == Len(Val(capture))
           body == Slice(raw, offset + 1)
       IN RespData([id |-> metadata.id, fname |-> metadata.fname,
                    title |-> metadata.title, stub |-> metadata.stub,
                    body |-> body, contentHash |-> Some(genHash(raw))])
  ELSE RespError(BadParse(fpath, key))

\* get, after its metadata fetch returned r.
GetAfterMetadata(g, r) ==
  IF HasError(r)
  THEN [g EXCEPT !.pc = "done", !.resp = Some(RespError(Val(r.error))),
                 !.io = Append(@, IO("metadata", "get", FALSE))]
  ELSE [g EXCEPT !.pc = "getNonMetadata", !.metadata = r.data,
                 !.fpath = Some(getFullPath(Val(r.data), WsRoot)),
                 !.io = Append(@, IO("metadata", "get", TRUE))]

\* Mutant of GetAfterRead: a failed read is made again.
GetAfterReadRetry(g, r) ==
  IF HasError(r)
  THEN [g EXCEPT !.io = Append(@, IO("file", "read", FALSE))]
  ELSE [g EXCEPT !.pc = "done", !.raw = r.data,
                 !.resp = Some(GetParse(Val(g.metadata), Val(g.fpath), g.key, Val(r.data))),
                 !.io = Append(@, IO("file", "read", TRUE))]

\* Mutant of GetAfterRead: a failed read is reported as a malformed note.
GetAfterReadReclassified(g, r) ==
  IF HasError(r)
  THEN [g EXCEPT !.pc = "done",
                 !.resp = Some(RespError(BadParse(Val(g.fpath), g.key))),
                 !.io = Append(@, IO("file", "read", FALSE))]
  ELSE [g EXCEPT !.pc = "done", !.raw = r.data,
                 !.resp = Some(GetParse(Val(g.metadata), Val(g.fpath), g.key, Val(r.data))),
                 !.io = Append(@, IO("file", "read", TRUE))]

\* get, after its file read returned r.
GetAfterRead(g, r) ==
  IF HasError(r)
  THEN [g EXCEPT !.pc = "done", !.resp = Some(RespError(Val(r.error))),
                 !.io = Append(@, IO("file", "read", FALSE))]
  ELSE [g EXCEPT !.pc = "done", !.raw = r.data,
                 !.resp = Some(GetParse(Val(g.metadata), Val(g.fpath), g.key, Val(r.data))),
                 !.io = Append(@, IO("file", "read", TRUE))]

\* A run of get moved to g: in a get call it is the call itself, in find it
\* is one of the gets find waits for.  settled lists the gets in the order
\* in which they returned.
WithGet(c, i, g) ==
  LET c1 == [c EXCEPT !.gets[i] = g,
                      !.settled = IF g.pc = "done" THEN Append(@, i) ELSE @] IN
  IF c.op = "get"
  THEN (IF g.pc = "done" THEN [c1 EXCEPT !.pc = "done", !.resp = g.resp]
        ELSE [c1 EXCEPT !.pc = "get"])
  ELSE c1

\* get is called and its metadata fetch returns.
get(p, key) ==
  /\ Begin(p)
  /\ \E fault \in BOOLEAN :
       LET c == [NewCall("get") EXCEPT !.key = key, !.gets = <<NewGet(key)>>]
           r == MetaStoreGet(key, fault)
       IN call' = [call EXCEPT ![p] = WithGet(c, 1, GetAfterMetadata(c.gets[1], r))]
  /\ UNCHANGED <<meta, files>>

\* One of find's gets: its metadata fetch returns.
GetMetadataStep(p, i) ==
  /\ call[p].pc = "join"
  /\ i \in DOMAIN call[p].gets
  /\ call[p].gets[i].pc = "getMetadata"
  /\ \E fault \in BOOLEAN :
       LET g == call[p].gets[i]
           r == MetaStoreGet(g.key, fault)
       IN call' = [call EXCEPT ![p] = WithGet(call[p], i, GetAfterMetadata(g, r))]
  /\ UNCHANGED <<meta, files, ncalls>>

\* A get, alone or one of find's: its file read returns.
GetReadStep(p, i) ==
  /\ call[p].pc \in {"get", "join"}
  /\ i \in DOMAIN call[p].gets
  /\ call[p].gets[i].pc = "getNonMetadata"
  /\ \E fault \in BOOLEAN :
       LET g == call[p].gets[i]
           r == FileStoreRead(Val(g.fpath), fault)
       IN call' = [call EXCEPT ![p] = WithGet(call[p], i, GetAfterRead(g, r))]
  /\ UNCHANGED <<meta, files, ncalls>>

getMetadata(p, key) ==
  /\ Begin(p)
  /\ \E fault \in BOOLEAN :
       LET resp == MetaStoreGet(key, fault)
           c == [NewCall("getMetadata") EXCEPT
                   !.key = key, !.io = <<IO("metadata", "get", ~HasError(resp))>>]
       IN call' = [call EXCEPT ![p] =
                     Done(c, IF HasError(resp) THEN RespError(Val(resp.error))
                             ELSE RespData(Val(resp.data)))]
  /\ UNCHANGED <<meta, files>>

getNonMetadata(p, fpath) ==
  /\ Begin(p)
  /\ \E fault \in BOOLEAN :
       LET resp == FileStoreRead(fpath, fault)
           c == [NewCall("getNonMetadata") EXCEPT
                   !.fpath = Some(fpath), !.io = <<IO("file", "read", ~HasError(resp))>>]
       IN call' = [call EXCEPT ![p] = Done(c, resp)]
  /\ UNCHANGED <<meta, files>>

\* DendronCompositeError
Composite(errors) == [status |-> "COMPOSITE", errors |-> errors]

\* Mutant of FindCollect: one failed get empties the notes.
FindCollectAllOrNothing(responses) ==
  LET failed == SelectSeq(responses, HasError)
      good == SelectSeq(responses, HasData)
      errors == [i \in 1..Len(failed) |-> Val(failed[i].error)]
      data == [i \in 1..Len(good) |-> Val(good[i].data)]
  IN [error |-> IF Len(errors) > 0 THEN Some(Composite(errors)) ELSE None,
      data |-> Some(IF Len(errors) > 0 THEN <<>> ELSE data)]

\* find, once every get has settled: the errors and the notes, each in the
\* order of the responses.
FindCollect(responses) ==
  LET failed == SelectSeq(responses, HasError)
      good == SelectSeq(responses, HasData)
      errors == [i \in 1..Len(failed) |-> Val(failed[i].error)]
      data == [i \in 1..Len(good) |-> Val(good[i].data)]
  IN [error |-> IF Len(errors) > 0 THEN Some(Composite(errors)) ELSE None,
      data |-> Some(data)]

\* Mutant of FindQueryFailed: the error is returned as it came.
FindQueryFailedPlain(e) == RespError(e)

\* find, when its metadata query failed with e.
FindQueryFailed(e) == [error |-> Some(Composite(<<e>>)), data |-> None]

\* find, when its metadata query returned rows: one get per row, all started
\* before any of them is waited for.
FindFanOut(c, rows) ==
  [c EXCEPT !.pc = "join", !.metadata = Some(rows),
            !.gets = [i \in 1..Len(rows) |-> NewGet(rows[i].id)]]

findMetaData(p, opts) ==
  /\ Begin(p)
  /\ \E fault \in BOOLEAN :
       LET r == MetaStoreFind(opts, fault)
           c == [NewCall("findMetaData") EXCEPT
                   !.opts = Some(opts), !.io = <<IO("metadata", "find", ~HasError(r))>>]
       IN call' = [call EXCEPT ![p] =
                     Done(c, IF HasError(r) THEN RespError(Val(r.error))
                             ELSE RespData(Val(r.data)))]
  /\ UNCHANGED <<meta, files>>

\* find is called and its metadata query returns.
find(p, opts) ==
  /\ Begin(p)
  /\ \E fault \in BOOLEAN :
       LET noteMetadata == MetaStoreFind(opts, fault)
           c == [NewCall("find") EXCEPT
                   !.opts = Some(opts),
                   !.io = <<IO("metadata", "find", ~HasError(noteMetadata))>>]
       IN call' = [call EXCEPT ![p] =
                     IF HasError(noteMetadata)
                     THEN Done(c, FindQueryFailed(Val(noteMetadata.error)))
                     ELSE FindFanOut(c, Val(noteMetadata.data))]
  /\ UNCHANGED <<meta, files>>

\* Mutant of FindJoin: find goes on as soon as one of its gets has failed.
FindJoinOnFirstFailure(p) ==
  /\ call[p].op = "find"
  /\ call[p].pc = "join"
  /\ LET settled == {i \in DOMAIN call[p].gets : call[p].gets[i].pc = "done"} IN
     /\ \/ settled = DOMAIN call[p].gets
        \/ \E i \in settled : HasError(Val(call[p].gets[i].resp))
     /\ LET order == SelectSeq([i \in DOMAIN call[p].gets |-> i],
                               LAMBDA i : i \in settled)
            responses == [k \in DOMAIN order |-> Val(call[p].gets[order[k]].resp)]
        IN call' = [call EXCEPT ![p] = Done(@, FindCollect(responses))]
  /\ UNCHANGED <<meta, files, ncalls>>

\* Mutant of FindJoin: the responses are taken in the order in which the
\* gets returned.
FindJoinCompletionOrder(p) ==
  /\ call[p].op = "find"
  /\ call[p].pc = "join"
  /\ \A i \in DOMAIN call[p].gets : call[p].gets[i].pc = "done"
  /\ LET responses == [k \in DOMAIN call[p].settled |->
                         Val(call[p].gets[call[p].settled[k]].resp)]
     IN call' = [call EXCEPT ![p] = Done(@, FindCollect(responses))]
  /\ UNCHANGED <<meta, files, ncalls>>

\* Promise.all: find goes on when every one of its gets has settled.
FindJoin(p) ==
  /\ call[p].op = "find"
  /\ call[p].pc = "join"
  /\ \A i \in DOMAIN call[p].gets : call[p].gets[i].pc = "done"
  /\ LET responses == [i \in DOMAIN call[p].gets |-> Val(call[p].gets[i].resp)]
     IN call' = [call EXCEPT ![p] = Done(@, FindCollect(responses))]
  /\ UNCHANGED <<meta, files, ncalls>>

\* Mutant of IdsDontMatch: the check is gone.
IdsDontMatchNever(key, note) == FALSE

\* writeMetadata's check of the key against the note.
IdsDontMatch(key, note) == key # note.id

WriteFailed(key) == Err("WRITE_FAILED", "MINOR", None, key)

\* Mutant of OmitBody: contentHash is left out as well.
OmitBodyAndHash(note) ==
  [id |-> note.id, fname |-> note.fname, title |-> note.title,
   stub |-> note.stub, contentHash |-> None]

\* _.omit(note, "body")
OmitBody(note) ==
  [id |-> note.id, fname |-> note.fname, title |-> note.title,
   stub |-> note.stub, contentHash |-> note.contentHash]

\* Mutant of WriteAfterMetadata: write goes on to the file whatever
\* writeMetadata returned.
WriteAfterMetadataAlways(c, metaResp) ==
  IF c.op = "write" THEN [c EXCEPT !.pc = "fileWrite"] ELSE Done(c, metaResp)

\* What a call does once its writeMetadata returned metaResp: writeMetadata
\* is over, write returns the error or goes on to the file.
WriteAfterMetadata(c, metaResp) ==
  IF c.op = "write" /\ ~HasError(metaResp) THEN [c EXCEPT !.pc = "fileWrite"]
  ELSE Done(c, metaResp)

\* The body of writeMetadata, run for the call c of p.
WriteMetadataBody(p, c) ==
  LET note == Val(c.note) IN
  IF IdsDontMatch(c.key, note)
  THEN /\ call' = [call EXCEPT ![p] = WriteAfterMetadata(c, RespError(WriteFailed(c.key)))]
       /\ UNCHANGED meta
  ELSE \E fault \in BOOLEAN :
         LET c1 == [c EXCEPT !.io = Append(@, IO("metadata", "write", ~fault))] IN
         IF fault
         THEN /\ call' = [call EXCEPT ![p] =
                             WriteAfterMetadata(c1, RespError(MetaBackendError(c.key)))]
              /\ UNCHANGED meta
         ELSE /\ meta' = Put(meta, c.key, OmitBody(note))
              /\ call' = [call EXCEPT ![p] = WriteAfterMetadata(c1, RespData(c.key))]

writeMetadata(p, key, note) ==
  /\ Begin(p)
  /\ WriteMetadataBody(p, [NewCall("writeMetadata") EXCEPT !.key = key, !.note = Some(note)])
  /\ UNCHANGED files

\* write is called and its writeMetadata returns.
write(p, key, note) ==
  /\ Begin(p)
  /\ WriteMetadataBody(p, [NewCall("write") EXCEPT !.key = key, !.note = Some(note)])
  /\ UNCHANGED files

\* Mutant of WriteFileStep: the body alone is written, without the header.
WriteFileStepBodyOnly(p) ==
  /\ call[p].pc = "fileWrite"
  /\ LET c == call[p]
         note == Val(c.note)
         fpath == getFullPath(note, WsRoot)
         content == note.body
     IN \E fault \in BOOLEAN :
          LET c1 == [c EXCEPT !.io = Append(@, IO("file", "write", ~fault)),
                              !.fpath = Some(fpath)] IN
          IF fault
          THEN /\ call' = [call EXCEPT ![p] = Done(c1, RespError(FileBackendError(fpath)))]
               /\ UNCHANGED files
          ELSE /\ files' = Put(files, fpath, content)
               /\ call' = [call EXCEPT ![p] = Done(c1, RespData(c.key))]
  /\ UNCHANGED <<meta, ncalls>>

\* write: the file store's write returns.
WriteFileStep(p) ==
  /\ call[p].pc = "fileWrite"
  /\ LET c == call[p]
         note == Val(c.note)
         fpath == getFullPath(note, WsRoot)
         content == serialize(note)
     IN \E fault \in BOOLEAN :
          LET c1 == [c EXCEPT !.io = Append(@, IO("file", "write", ~fault)),
                              !.fpath = Some(fpath)] IN
          IF fault
          THEN /\ call' = [call EXCEPT ![p] = Done(c1, RespError(FileBackendError(fpath)))]
               /\ UNCHANGED files
          ELSE /\ files' = Put(files, fpath, content)
               /\ call' = [call EXCEPT ![p] = Done(c1, RespData(c.key))]
  /\ UNCHANGED <<meta, ncalls>>

\* Mutant of DeleteAfterMetadata: the metadata row is deleted first.
DeleteAfterMetadataRowFirst(c, r) ==
  IF HasError(r) THEN Done(c, RespError(Val(r.error)))
  ELSE [c EXCEPT !.pc = "metaDelete", !.metadata = r.data,
                 !.fpath = Some(getFullPath(Val(r.data), WsRoot))]

\* What delete does once its metadata fetch returned r.
DeleteAfterMetadata(c, r) ==
  IF HasError(r) THEN Done(c, RespError(Val(r.error)))
  ELSE [c EXCEPT !.pc = "fileDelete", !.metadata = r.data,
                 !.fpath = Some(getFullPath(Val(r.data), WsRoot))]

\* delete is called and its metadata fetch returns.
delete(p, key) ==
  /\ Begin(p)
  /\ \E fault \in BOOLEAN :
       LET metadata == MetaStoreGet(key, fault)
           c == [NewCall("delete") EXCEPT
                   !.key = key, !.io = <<IO("metadata", "get", ~HasError(metadata))>>]
       IN call' = [call EXCEPT ![p] = DeleteAfterMetadata(c, metadata)]
  /\ UNCHANGED <<meta, files>>

\* Mutant of DeleteAfterFile: a failed file delete does not stop delete.
DeleteAfterFileAlways(c, deleteResp) == [c EXCEPT !.pc = "metaDelete"]

\* What delete does once the file store's delete returned deleteResp.
DeleteAfterFile(c, deleteResp) ==
  IF HasError(deleteResp) THEN Done(c, RespError(Val(deleteResp.error)))
  ELSE [c EXCEPT !.pc = "metaDelete"]

\* delete: the file store's delete returns.
DeleteFileStep(p) ==
  /\ call[p].pc = "fileDelete"
  /\ LET c == call[p]
         fpath == Val(c.fpath)
     IN \E fault \in BOOLEAN :
          LET ok == ~fault /\ fpath \in DOMAIN files
              c1 == [c EXCEPT !.io = Append(@, IO("file", "delete", ok))]
          IN IF ok
             THEN /\ files' = Drop(files, fpath)
                  /\ call' = [call EXCEPT ![p] = DeleteAfterFile(c1, RespData(fpath))]
             ELSE /\ call' = [call EXCEPT ![p] =
                        DeleteAfterFile(c1, RespError(IF fault THEN FileBackendError(fpath)
                                                      ELSE FileNotFound(fpath)))]
                  /\ UNCHANGED files
  /\ UNCHANGED <<meta, ncalls>>

\* delete: the metadata store's delete returns.
DeleteMetaStep(p) ==
  /\ call[p].pc = "metaDelete"
  /\ LET c == call[p] IN
     \E fault \in BOOLEAN :
       LET ok == ~fault /\ c.key \in DOMAIN meta
           c1 == [c EXCEPT !.io = Append(@, IO("metadata", "delete", ok))]
       IN IF ok
          THEN /\ meta' = Drop(meta, c.key)
               /\ call' = [call EXCEPT ![p] = Done(c1, RespData(c.key))]
          ELSE /\ call' = [call EXCEPT ![p] =
                     Done(c1, RespError(IF fault THEN MetaBackendError(c.key)
                                        ELSE MetaNotFound(c.key)))]
               /\ UNCHANGED meta
  /\ UNCHANGED <<files, ncalls>>

\* Mutant of rename: the file of oldLoc is moved to the path of newLoc.
renameMovesFile(p, oldLoc, newLoc) ==
  /\ Begin(p)
  /\ LET test == <<oldLoc.fname, newLoc.fname>>
         from == getFullPath(oldLoc, WsRoot)
         to == getFullPath(newLoc, WsRoot)
         c == [NewCall("rename") EXCEPT !.locs = Some(<<oldLoc, newLoc>>)]
     IN /\ call' = [call EXCEPT ![p] = Done(c, RespData(test))]
        /\ files' = IF from \in DOMAIN files
                    THEN Put(Drop(files, from), to, files[from])
                    ELSE files
  /\ UNCHANGED meta

\* rename: the two fnames, one after the other.
rename(p, oldLoc, newLoc) ==
  /\ Begin(p)
  /\ LET test == <<oldLoc.fname, newLoc.fname>>
         c == [NewCall("rename") EXCEPT !.locs = Some(<<oldLoc, newLoc>>)]
     IN call' = [call EXCEPT ![p] = Done(c, RespData(test))]
  /\ UNCHANGED <<meta, files>>

----------------------------------------------------------------------------
(* The system *)

\* The stores outlive the engine, which is constructed over what earlier
\* runs and other programs left in them: nothing; a note with both halves;
\* a note whose file was replaced by a text that is not a note.
NoRows == [id \in {} |-> None]
NoFiles == [f \in {} |-> None]
SeedNote == Note("a", "f", PlainTitle, FALSE, <<"x">>, None)
SeedPath == getFullPath(SeedNote, WsRoot)

InitialStores ==
  {[meta |-> NoRows, files |-> NoFiles]}
    \cup {[meta |-> Put(NoRows, SeedNote.id, OmitBody(SeedNote)),
           files |-> Put(NoFiles, SeedPath, t)] :
             t \in {serialize(SeedNote)} \cup ForeignTexts}

Init ==
  /\ \E s \in InitialStores : meta = s.meta /\ files = s.files
  /\ call = [p \in Procs |-> IdleCall]
  /\ ncalls = 0

\* The keys and notes callers pass to write and writeMetadata: every note
\* under its own id, and under the id of another note.
WriteArgs == {kn \in Ids \X Notes : kn[1] = kn[2].id \/ kn[1] = SeedNote.id}

\* A caller invokes one operation of the engine.
Start(p) ==
  \/ \E key \in Ids : get(p, key)
  \/ getMetadata(p, SeedNote.id)
  \/ getNonMetadata(p, SeedPath)
  \/ \E opts \in FindOpts : find(p, opts)
  \/ findMetaData(p, [fname |-> None])
  \/ \E kn \in WriteArgs : write(p, kn[1], kn[2])
  \/ \E note \in Notes : writeMetadata(p, SeedNote.id, note)
  \/ \E key \in Ids : delete(p, key)
  \/ rename(p, [fname |-> "f"], [fname |-> "g"])

\* A call in flight resumes after one of its awaits.
Step(p) ==
  \/ \E i \in 1..Len(IdOrder) : GetMetadataStep(p, i)
  \/ \E i \in 1..Len(IdOrder) : GetReadStep(p, i)
  \/ FindJoin(p)
  \/ WriteFileStep(p)
  \/ DeleteFileStep(p)
  \/ DeleteMetaStep(p)

\* Callers invoke the engine whenever they like: calls overlap.
Next == \E p \in Procs : Start(p) \/ Step(p)

Spec == Init /\ [][Next]_vars

\* Callers await each call before they make the next: a call starts only
\* when no other call is in flight.
Quiet == \A q \in Procs : Free(q)

SeqNext == \E p \in Procs : (Quiet /\ Start(p)) \/ Step(p)

SeqSpec == Init /\ [][SeqNext]_vars

\* Every store call returns: a call in flight is resumed sooner or later.
FairSpec == Spec /\ \A p \in Procs : WF_vars(Step(p))

----------------------------------------------------------------------------
(* Properties *)

IsWriteCall(c) == c.op \in {"write", "writeMetadata"}

\* C1: a write or writeMetadata whose note.id differs from the key returns
\* the identity-mismatch error at once, makes no store call, and leaves the
\* metadata store and the file store exactly as they were.
C1_MismatchTouchesNoStore ==
  [][\A p \in Procs :
       LET c == call'[p] IN
       (c # call[p] /\ IsWriteCall(c) /\ c.key # Val(c.note).id)
         => /\ c.pc = "done"
            /\ HasError(Val(c.resp)) /\ ~HasData(Val(c.resp))
            /\ Val(Val(c.resp).error).status = "WRITE_FAILED"
            /\ c.io = <<>>
            /\ meta' = meta
            /\ files' = files]_vars

\* A write under the key of an existing row, with a note of another id, has
\* returned.
C1_Witness ==
  \E p \in Procs :
    /\ call[p].op = "write" /\ call[p].pc = "done"
    /\ call[p].key # Val(call[p].note).id
    /\ call[p].key \in DOMAIN meta

\* The gets of a find that failed, as positions in its rows.
FailedGets(c) == {i \in DOMAIN c.gets : HasError(Val(c.gets[i].resp))}

\* s is the sequence of f[i] for the i of I, in increasing order.
IsSubSeqOf(s, f, I) ==
  /\ Len(s) = Cardinality(I)
  /\ \A k \in DOMAIN s :
       \E i \in I : /\ Cardinality({j \in I : j < i}) = k - 1
                    /\ s[k] = f[i]

FindQueryOk(c) == c.op = "find" /\ c.pc = "done" /\ c.io[1].ok

\* C2: a find whose metadata query returned N rows, M of whose gets failed,
\* returns exactly the N - M notes of the gets that succeeded and a composite
\* error with exactly the M errors of the gets that failed; the error is
\* null exactly when M = 0.
C2_FindPartialResults ==
  \A p \in Procs :
    LET c == call[p] IN
    FindQueryOk(c) =>
      LET rows == Val(c.metadata)
          N == Len(rows)
          bad == FailedGets(c)
          M == Cardinality(bad)
          resp == Val(c.resp)
      IN /\ Len(c.gets) = N
         /\ \A i \in 1..N : c.gets[i].key = rows[i].id
         /\ HasData(resp)
         /\ Len(Val(resp.data)) = N - M
         /\ IsSubSeqOf(Val(resp.data),
                       [i \in 1..N |-> Val(Val(c.gets[i].resp).data)], (1..N) \ bad)
         /\ (M = 0 <=> resp.error = None)
         /\ M > 0 =>
              /\ Val(resp.error).status = "COMPOSITE"
              /\ Len(Val(resp.error).errors) = M
              /\ IsSubSeqOf(Val(resp.error).errors,
                            [i \in 1..N |-> Val(Val(c.gets[i].resp).error)], bad)

\* A find over two rows has returned one note and one error.
C2_Witness ==
  \E p \in Procs :
    /\ FindQueryOk(call[p])
    /\ Len(call[p].gets) = 2
    /\ Cardinality(FailedGets(call[p])) = 1
    /\ Len(Val(Val(call[p].resp).data)) = 1

FindQueryNotOk(c) == c.op = "find" /\ c.pc = "done" /\ ~c.io[1].ok

\* C9: a find whose metadata query failed returns a composite error holding
\* exactly that one error and no notes; it starts no get and reads no file.
C9_FindQueryFailure ==
  \A p \in Procs :
    LET c == call[p] IN
    FindQueryNotOk(c) =>
      /\ Val(c.resp).error = Some(Composite(<<MetaBackendError("")>>))
      /\ ~HasData(Val(c.resp))
      /\ c.gets = <<>>
      /\ c.io = <<IO("metadata", "find", FALSE)>>

\* A find has failed at its query while the metadata store holds two rows.
C9_Witness ==
  \E p \in Procs : FindQueryNotOk(call[p]) /\ DOMAIN meta = Ids

\* The store calls of a call c that touched the file store.
FileCalls(c) == {i \in DOMAIN c.io : c.io[i].store = "file"}

\* C5: in every write, the file store's write is issued only after the
\* metadata write of the same call returned without an error; when the
\* metadata write fails, write returns that error and the call never
\* touches the file store.
C5_MetadataBeforeContent ==
  [][\A p \in Procs :
       LET c == call[p]
           d == call'[p]
       IN (d # c /\ d.op = "write") =>
            /\ (files' # files \/ FileCalls(d) # {}) =>
                 /\ c.op = "write" /\ c.seq = d.seq
                 /\ c.io = <<IO("metadata", "write", TRUE)>>
                 /\ d.io = <<IO("metadata", "write", TRUE), d.io[2]>>
                 /\ d.io[2].store = "file" /\ d.io[2].op = "write"
            /\ (d.io # <<>> /\ ~d.io[1].ok) =>
                 /\ d.io = <<IO("metadata", "write", FALSE)>>
                 /\ d.pc = "done"
                 /\ Val(d.resp) = RespError(MetaBackendError(d.key))
                 /\ files' = files]_vars

\* One write has returned the error of its metadata write, another has
\* written its file after its metadata.
C5_Witness ==
  \E p, q \in Procs :
    /\ call[p].op = "write" /\ call[p].pc = "done"
    /\ call[p].io = <<IO("metadata", "write", FALSE)>>
    /\ call[q].op = "write" /\ call[q].pc = "done"
    /\ call[q].io = <<IO("metadata", "write", TRUE), IO("file", "write", TRUE)>>

ContentWriteFailed(c) ==
  /\ c.op = "write" /\ c.pc = "done"
  /\ c.io = <<IO("metadata", "write", TRUE), IO("file", "write", FALSE)>>

\* C6: when calls do not overlap and the metadata write of a write
\* succeeded but its file write failed, write returns the file store's
\* error, the metadata store holds the new row of the note (every field but
\* the body), and the step left the file store as it was.
C6_MetadataStaysCommitted ==
  [][\A p \in Procs :
       LET d == call'[p] IN
       (d # call[p] /\ ContentWriteFailed(d)) =>
         LET note == Val(d.note) IN
         /\ Val(d.resp) = RespError(FileBackendError(getFullPath(note, WsRoot)))
         /\ files' = files
         /\ d.key \in DOMAIN meta'
         /\ meta'[d.key] = [id |-> note.id, fname |-> note.fname, title |-> note.title,
                            stub |-> note.stub, contentHash |-> note.contentHash]]_vars

\* A write that replaces an existing row has failed at its file write.
C6_Witness ==
  \E p, q \in Procs :
    /\ ContentWriteFailed(call[p])
    /\ call[q].op = "write" /\ call[q].pc = "done" /\ HasData(Val(call[q].resp))
    /\ call[q].key = call[p].key /\ call[q].seq < call[p].seq
    /\ call[q].note # call[p].note

\* The store calls of delete, in the order the code makes them.
DeleteOrder == <<IO("metadata", "get", TRUE), IO("file", "delete", TRUE),
                 IO("metadata", "delete", TRUE)>>

\* io is the first calls of DeleteOrder, all but perhaps the last successful.
IsDeleteRun(io) ==
  /\ Len(io) \in 1..3
  /\ \A i \in DOMAIN io :
       /\ io[i].store = DeleteOrder[i].store /\ io[i].op = DeleteOrder[i].op
       /\ i < Len(io) => io[i].ok

\* C7: delete calls the stores in the order metadata get, file delete,
\* metadata delete, each only if the one before succeeded.  When the
\* metadata get fails neither store changes; when (calls not overlapping)
\* the metadata delete fails after the file delete, the file is gone, the
\* row remains and the caller gets the metadata store's error.
C7_DeleteOrder ==
  [][\A p \in Procs :
       LET d == call'[p] IN
       (d # call[p] /\ d.op = "delete") =>
         /\ IsDeleteRun(d.io)
         /\ (d.pc = "done" /\ HasData(Val(d.resp))) => d.io = DeleteOrder
         /\ ~d.io[1].ok =>
              /\ d.pc = "done" /\ HasError(Val(d.resp))
              /\ meta' = meta /\ files' = files
         /\ (Len(d.io) = 3 /\ ~d.io[3].ok) =>
              /\ d.pc = "done"
              /\ Val(d.resp) = RespError(MetaBackendError(d.key))
              /\ Val(d.fpath) \notin DOMAIN files'
              /\ d.key \in DOMAIN meta']_vars

\* A delete has failed at its metadata delete.
C7_Witness ==
  \E p \in Procs :
    /\ call[p].op = "delete" /\ call[p].pc = "done"
    /\ Len(call[p].io) = 3 /\ ~call[p].io[3].ok

\* The call made last.
Latest(c) == c.seq = ncalls /\ c.seq > 0

DeleteOk(c) == c.op = "delete" /\ c.pc = "done" /\ HasData(Val(c.resp))

\* C3: with calls that do not overlap: when delete returns success the file
\* store has no entry at the note's path and the metadata store has no row
\* for the id, and the next call, a get of that id, fails with the metadata
\* store's error (not found, unless the store itself broke down); when the
\* file delete fails, delete returns that error and the row is still there.
C3_DeleteRemovesBoth ==
  \A p \in Procs :
    LET c == call[p] IN
    /\ (DeleteOk(c) /\ Latest(c)) =>
         /\ Val(c.fpath) \notin DOMAIN files
         /\ c.key \notin DOMAIN meta
    /\ (c.op = "get" /\ c.pc = "done" /\ Latest(c)) =>
         \A q \in Procs :
           (DeleteOk(call[q]) /\ call[q].seq = c.seq - 1 /\ call[q].key = c.key) =>
             /\ HasError(Val(c.resp)) /\ ~HasData(Val(c.resp))
             /\ Val(Val(c.resp).error) \in {MetaNotFound(c.key), MetaBackendError(c.key)}
             /\ Len(c.gets[1].io) = 1
    /\ (c.op = "delete" /\ c.pc = "done" /\ Latest(c)
          /\ Len(c.io) = 2 /\ ~c.io[2].ok) =>
         /\ HasError(Val(c.resp))
         /\ Val(Val(c.resp).error).status \in {"FILE_BACKEND_ERROR", "FILE_NOT_FOUND"}
         /\ c.key \in DOMAIN meta

\* A delete of a note that had both halves succeeded, and the get made next
\* found no row.
C3_Witness ==
  \E p, q \in Procs :
    /\ DeleteOk(call[q]) /\ call[q].io = DeleteOrder
    /\ call[p].op = "get" /\ call[p].pc = "done" /\ call[p].key = call[q].key
    /\ call[p].seq = call[q].seq + 1
    /\ Val(Val(call[p].resp).error) = MetaNotFound(call[p].key)

\* The text does not start with a delimiter that another delimiter follows.
NoDelimiterPair(raw) == ~(DelimAt(raw, 1) /\ \E j \in 4..Len(raw) : DelimAt(raw, j))

BadParseOf(g) ==
  /\ HasError(Val(g.resp)) /\ ~HasData(Val(g.resp))
  /\ Val(Val(g.resp).error).status = "BAD_PARSE_FOR_NOTE"
  /\ Val(Val(g.resp).error).severity = "MINOR"
  /\ Val(Val(g.resp).error).fpath = g.fpath
  /\ Val(Val(g.resp).error).key = g.key

\* C10: a get that read a raw text with no delimiter pair at its start
\* returns no data and a minor malformed-content error naming the path it
\* read and the id; in a find, that error joins the composite error and
\* every note whose get succeeded is still returned.
C10_MalformedContent ==
  \A p \in Procs :
    LET c == call[p] IN
    \A i \in DOMAIN c.gets :
      LET g == c.gets[i] IN
      (g.pc = "done" /\ IsSome(g.raw) /\ NoDelimiterPair(Val(g.raw))) =>
        /\ BadParseOf(g)
        /\ IsSome(g.fpath) /\ Val(g.fpath) = getFullPath(Val(g.metadata), WsRoot)
        /\ FindQueryOk(c) =>
             /\ \E k \in DOMAIN Val(Val(c.resp).error).errors :
                  Val(Val(c.resp).error).errors[k] = Val(Val(g.resp).error)
             /\ \A j \in DOMAIN c.gets :
                  HasData(Val(c.gets[j].resp)) =>
                    \E k \in DOMAIN Val(Val(c.resp).data) :
                      Val(Val(c.resp).data)[k] = Val(Val(c.gets[j].resp).data)

\* A find over two rows has returned the note of one and the
\* malformed-content error of the other.
C10_Witness ==
  \E p \in Procs :
    /\ FindQueryOk(call[p])
    /\ \E i, j \in DOMAIN call[p].gets :
         /\ IsSome(call[p].gets[i].raw) /\ NoDelimiterPair(Val(call[p].gets[i].raw))
         /\ BadParseOf(call[p].gets[i])
         /\ HasData(Val(call[p].gets[j].resp))
    /\ Len(Val(Val(call[p].resp).data)) = 1

WriteOk(c) == c.op = "write" /\ c.pc = "done" /\ HasData(Val(c.resp))

\* A get that returned with both of its store calls successful.
GetRead(c) ==
  /\ c.op = "get" /\ c.pc = "done"
  /\ c.gets[1].io = <<IO("metadata", "get", TRUE), IO("file", "read", TRUE)>>

\* C4: round trip, with calls that do not overlap: after a successful
\* write(id, note), the next call, a get(id) whose store calls succeed,
\* returns the metadata fields of the note and exactly its body.
C4_RoundTrip ==
  \A p, q \in Procs :
    (/\ WriteOk(call[q])
     /\ GetRead(call[p]) /\ Latest(call[p])
     /\ call[p].seq = call[q].seq + 1 /\ call[p].key = call[q].key) =>
      LET note == Val(call[q].note)
          resp == Val(call[p].resp)
      IN /\ HasData(resp)
         /\ Val(resp.data).id = note.id
         /\ Val(resp.data).fname = note.fname
         /\ Val(resp.data).title = note.title
         /\ Val(resp.data).stub = note.stub
         /\ Val(resp.data).body = note.body

\* File entries the engine wrote that no metadata row resolves to.
Orphans ==
  {f \in DOMAIN files :
     /\ files[f] \notin ForeignTexts
     /\ \A id \in DOMAIN meta : getFullPath(meta[id], WsRoot) # f}

\* C8 as claimed: whatever the calls and however they overlap, the engine
\* leaves no content without a metadata row that resolves to it.
C8_NoOrphanedContent == Orphans = {}

\* A metadata write replaces a row by one that resolves to another path.
MovesRow ==
  \E id \in DOMAIN meta \cap DOMAIN meta' :
    getFullPath(meta'[id], WsRoot) # getFullPath(meta[id], WsRoot)

\* C8, amended: with calls that do not overlap, no step of the engine,
\* failing or not, orphans content, but for a metadata write that moves an
\* existing row to another path.
C8_SequentialStepsOrphanNothing ==
  [][(Orphans = {} /\ ~MovesRow) => (Orphans = {})']_vars

\* After a write that failed at its file and a complete delete: a row
\* without content, and no content without a row.
C8_Witness ==
  /\ Orphans = {}
  /\ \E p, q \in Procs :
       /\ ContentWriteFailed(call[p])
       /\ DeleteOk(call[q]) /\ call[q].seq > call[p].seq
  /\ \E id \in DOMAIN meta : getFullPath(meta[id], WsRoot) \notin DOMAIN files

\* The gets that returned a note: the get calls and the gets of find.
ReturnedNote(g) == g.pc = "done" /\ HasData(Val(g.resp))

\* C11: the contentHash of every note a get returns is the hash of the whole
\* raw text (header and body) that this get read from the file store,
\* whatever contentHash the metadata row holds.
C11_FreshContentHash ==
  \A p \in Procs :
    \A i \in DOMAIN call[p].gets :
      LET g == call[p].gets[i] IN
      ReturnedNote(g) =>
        /\ IsSome(g.raw)
        /\ g.io = <<IO("metadata", "get", TRUE), IO("file", "read", TRUE)>>
        /\ Val(Val(g.resp).data).contentHash = Some(genHash(Val(g.raw)))

\* A get returned a note whose metadata row held a stale contentHash.
C11_Witness ==
  \E p \in Procs :
    /\ call[p].op = "get"
    /\ ReturnedNote(call[p].gets[1])
    /\ Val(call[p].gets[1].metadata).contentHash = StaleHash
    /\ Val(Val(call[p].resp).data).contentHash # StaleHash

\* C12 as claimed: no step of a write of a note flagged as a stub calls the
\* file store or changes it.
C12_StubNeverWritten ==
  [][\A p \in Procs :
       LET d == call'[p] IN
       (d # call[p] /\ d.op = "write" /\ Val(d.note).stub)
         => /\ files' = files
            /\ FileCalls(d) = {}]_vars

\* The operations that only read.
ReadOps == {"get", "getMetadata", "getNonMetadata", "find", "findMetaData", "rename"}

\* C13: no step of get, getMetadata, getNonMetadata, find, findMetaData or
\* rename, whether the call goes on, returns data or returns an error,
\* changes the metadata store or the file store.
C13_ReadsMutateNothing ==
  [][\A p \in Procs :
       (call'[p] # call[p] /\ call'[p].op \in ReadOps)
         => /\ meta' = meta
            /\ files' = files]_vars

\* Over stores that hold a row and a file, a rename has returned and so has
\* a find with an error, the row and the file still there.
C13_Witness ==
  /\ meta # NoRows /\ files # NoFiles
  /\ \E p, q \in Procs :
       /\ call[p].op = "rename" /\ call[p].pc = "done" /\ HasData(Val(call[p].resp))
       /\ call[q].op = "find" /\ call[q].pc = "done" /\ HasError(Val(call[q].resp))

\* The note the get g returned is one version n of a note, as write stores
\* it: the fields of its row, and the raw text and the hash of its file.
SameVersion(g, n) ==
  LET note == Val(Val(g.resp).data) IN
  /\ note.id = n.id /\ note.fname = n.fname
  /\ note.title = n.title /\ note.stub = n.stub
  /\ g.raw = Some(serialize(n))
  /\ note.contentHash = Some(genHash(serialize(n)))

\* C14 as claimed: every note a get returns is, in its fields and in its
\* text, one written version of a note.
C14_GetConsistent ==
  \A p \in Procs :
    \A i \in DOMAIN call[p].gets :
      ReturnedNote(call[p].gets[i]) =>
        \E n \in Notes : SameVersion(call[p].gets[i], n)

\* C14, amended: with calls that do not overlap, the get(id) made next
\* after a successful write(id, note), its store calls succeeding, returns
\* the fields, the text and the hash of that one version.
C14_GetAfterWriteConsistent ==
  \A p, q \in Procs :
    (/\ WriteOk(call[q])
     /\ GetRead(call[p]) /\ Latest(call[p])
     /\ call[p].seq = call[q].seq + 1 /\ call[p].key = call[q].key) =>
      /\ HasData(Val(call[p].resp))
      /\ SameVersion(call[p].gets[1], Val(call[q].note))

\* A write replaced the row and the file of a stored note by another
\* version, and the get made next returned a note.
C14_Witness ==
  \E p, q \in Procs :
    /\ WriteOk(call[q]) /\ call[q].key = SeedNote.id
    /\ Val(call[q].note).title # SeedNote.title
    /\ GetRead(call[p]) /\ call[p].seq = call[q].seq + 1
    /\ call[p].key = call[q].key
    /\ HasData(Val(call[p].resp))

\* The gets of a find that changed in a step.
GetsMoved(c, d) == {i \in DOMAIN c.gets : d.gets[i] # c.gets[i]}

\* C15: when its query returns, find starts one get per matched row, all of
\* them before any has returned; while find waits, a step settles or moves
\* one get that had not returned and touches no other, whether a sibling
\* failed or not; find returns only from a state in which every get has
\* made its store calls and returned; and, every store call returning, a
\* find that waits returns.
C15_FindFanOutAndJoin ==
  /\ [][\A p \in Procs :
          LET c == call[p]
              d == call'[p]
          IN /\ (d # c /\ d.op = "find" /\ d.pc = "join" /\ c.pc # "join") =>
                  LET rows == Val(d.metadata) IN
                  /\ Len(d.gets) = Len(rows)
                  /\ \A i \in DOMAIN rows : d.gets[i] = NewGet(rows[i].id)
             /\ (d # c /\ c.op = "find" /\ c.pc = "join" /\ d.pc = "join") =>
                  /\ DOMAIN d.gets = DOMAIN c.gets
                  /\ Cardinality(GetsMoved(c, d)) = 1
                  /\ \A i \in GetsMoved(c, d) : c.gets[i].pc # "done"
             /\ (d # c /\ c.op = "find" /\ c.pc = "join" /\ d.pc # "join") =>
                  /\ d.pc = "done" /\ d.gets = c.gets
                  /\ \A i \in DOMAIN c.gets :
                       c.gets[i].pc = "done" /\ c.gets[i].io # <<>>]_vars
  /\ \A p \in Procs : (call[p].pc = "join") ~> (call[p].pc = "done")

\* A find over two rows has returned: its first get failed first, its second
\* get returned a note after that.
C15_Witness ==
  \E p \in Procs :
    /\ FindQueryOk(call[p])
    /\ call[p].settled = <<1, 2>>
    /\ HasError(Val(call[p].gets[1].resp))
    /\ HasData(Val(call[p].gets[2].resp))

\* The last store call of the log failed.
Failed(x) == x.io # <<>> /\ ~x.io[Len(x.io)].ok

\* The errors the store call e, made for key or at fpath, can have returned
\* from the stores as they are: the store's own error value, not found only
\* for what is not there.
StoreErrors(e, key, fpath) ==
  IF e.store = "metadata"
  THEN (IF e.op = "find" THEN {MetaBackendError("")} ELSE {MetaBackendError(key)})
         \cup (IF e.op \in {"get", "delete"} /\ key \notin DOMAIN meta
               THEN {MetaNotFound(key)} ELSE {})
  ELSE {FileBackendError(Val(fpath))}
         \cup (IF e.op \in {"read", "delete"} /\ Val(fpath) \notin DOMAIN files
               THEN {FileNotFound(Val(fpath))} ELSE {})

\* x, whose store call has just failed, returns that call's error and
\* nothing else, and had no failed store call before.
ReturnsFirstFailure(x, key) ==
  /\ x.pc = "done"
  /\ \A i \in 1..(Len(x.io) - 1) : x.io[i].ok
  /\ ~HasData(Val(x.resp))
  /\ HasError(Val(x.resp))
  /\ Val(Val(x.resp).error) \in StoreErrors(x.io[Len(x.io)], key, x.fpath)

\* C16: in get (alone or one of find's), getMetadata, findMetaData, write
\* and delete, the step in which a store call fails ends the operation with
\* exactly the error of that store call and no data; no store call of the
\* operation failed before it and none is made after it, so a get whose
\* metadata fetch failed never reads the file store.
C16_FirstFailurePropagates ==
  [][\A p \in Procs :
       LET c == call[p]
           d == call'[p]
       IN d # c =>
            /\ (d.op \in {"getMetadata", "findMetaData", "write", "delete"} /\ Failed(d))
                 => ReturnsFirstFailure(d, d.key)
            /\ \A i \in DOMAIN d.gets :
                 LET g == d.gets[i] IN
                 ((c.seq # d.seq \/ c.gets[i] # g) /\ Failed(g)) =>
                   /\ ReturnsFirstFailure(g, g.key)
                   /\ ~g.io[1].ok => g.io = <<IO("metadata", "get", FALSE)>>
                   /\ d.op = "get" => (d.pc = "done" /\ d.resp = g.resp)]_vars

\* A get whose metadata fetch succeeded has returned the file store's
\* not-found error for the path it resolved.
C16_Witness ==
  \E p \in Procs :
    /\ call[p].op = "get" /\ call[p].pc = "done"
    /\ call[p].gets[1].io = <<IO("metadata", "get", TRUE), IO("file", "read", FALSE)>>
    /\ Val(call[p].resp) = RespError(FileNotFound(Val(call[p].gets[1].fpath)))

\* How many times the log io has the call op of store.
Count(io, store, op) ==
  Cardinality({i \in DOMAIN io : io[i].store = store /\ io[i].op = op})

\* Every store call of the log is one of calls, and none is there twice.
AtMostOnceEach(io, calls) ==
  /\ \A i \in DOMAIN io : <<io[i].store, io[i].op>> \in calls
  /\ \A sc \in calls : Count(io, sc[1], sc[2]) <= 1

GetCalls == {<<"metadata", "get">>, <<"file", "read">>}

\* C17: whatever fails, a get makes at most one metadata get and one file
\* read; a write at most one metadata write and one file write; a delete at
\* most one metadata get, one file delete and one metadata delete; a find
\* exactly one metadata query and, when it has returned, exactly one get per
\* matched row, each with at least its metadata get made.
C17_NoRetry ==
  \A p \in Procs :
    LET c == call[p] IN
    /\ \A i \in DOMAIN c.gets : AtMostOnceEach(c.gets[i].io, GetCalls)
    /\ c.op = "get" => (Len(c.gets) = 1 /\ c.io = <<>>)
    /\ c.op \in {"write", "writeMetadata"} =>
         AtMostOnceEach(c.io, {<<"metadata", "write">>, <<"file", "write">>})
    /\ c.op = "delete" =>
         AtMostOnceEach(c.io, {<<"metadata", "get">>, <<"file", "delete">>,
                               <<"metadata", "delete">>})
    /\ c.op = "find" =>
         /\ Len(c.io) = 1 /\ Count(c.io, "metadata", "find") = 1
         /\ ~c.io[1].ok => c.gets = <<>>
         /\ c.io[1].ok =>
              /\ Len(c.gets) = Len(Val(c.metadata))
              /\ \A i \in DOMAIN c.gets : c.gets[i].key = Val(c.metadata)[i].id
              /\ c.pc = "done" =>
                   \A i \in DOMAIN c.gets :
                     Count(c.gets[i].io, "metadata", "get") = 1

\* A find over two rows has returned after one of its gets failed at its
\* metadata get and the other at its file read.
C17_Witness ==
  \E p \in Procs :
    /\ FindQueryOk(call[p])
    /\ Len(call[p].gets) = 2
    /\ \E i, j \in DOMAIN call[p].gets :
         /\ call[p].gets[i].io = <<IO("metadata", "get", FALSE)>>
         /\ call[p].gets[j].io = <<IO("metadata", "get", TRUE), IO("file", "read", FALSE)>>

\* A delimiter on a line of its own, closing a header: it follows a newline
\* and the text ends, or a newline comes, right after it.
ClosingAt(raw, j) ==
  /\ DelimAt(raw, j) /\ raw[j - 1] = NL
  /\ (j + 2 = Len(raw) \/ raw[j + 3] = NL)

\* The text begins with a header span: the opening delimiter on the first
\* line, and a closing delimiter on a line of its own.
HasHeaderSpan(raw) ==
  /\ DelimAt(raw, 1) /\ Len(raw) >= 4 /\ raw[4] = NL
  /\ \E j \in 5..Len(raw) : ClosingAt(raw, j)

\* Where the closing delimiter of the header span begins.
HeaderClose(raw) ==
  CHOOSE j \in 5..Len(raw) :
    ClosingAt(raw, j) /\ \A k \in 5..(j - 1) : ~ClosingAt(raw, k)

\* The text after the closing delimiter and the newline that follows it.
BodyAfterHeader(raw) == SubSeq(raw, HeaderClose(raw) + 4, Len(raw))

\* C18 as claimed: a get that read a text beginning with a header span
\* returns as body exactly the text after the closing delimiter of the span
\* and the one newline that follows it.
C18_BodyAfterHeaderSpan ==
  \A p \in Procs :
    \A i \in DOMAIN call[p].gets :
      LET g == call[p].gets[i] IN
      (g.pc = "done" /\ IsSome(g.raw) /\ HasHeaderSpan(Val(g.raw))) =>
        /\ HasData(Val(g.resp))
        /\ Val(Val(g.resp).data).body = BodyAfterHeader(Val(g.raw))

\* A find whose query returned rows, waiting for its gets or returned.
FindFannedOut(c) == c.op = "find" /\ c.pc \in {"join", "done"} /\ c.io[1].ok

\* C19: with calls that do not overlap, so that the stores do not change
\* while find runs, what each get of a find returns is fixed by its row, by
\* the stores and by which of its store calls failed, and what find returns
\* is the notes in the order of the rows and the errors in the order of the
\* failing rows, in whatever order the gets returned.
C19_FindOrderIndependent ==
  \A p \in Procs :
    LET c == call[p] IN
    (FindFannedOut(c) /\ Latest(c)) =>
      LET rows == Val(c.metadata)
          N == Len(rows)
          bad == FailedGets(c)
      IN /\ rows = RowsFrom(1, Val(c.opts))
         /\ Len(c.gets) = N
         /\ \A i \in 1..N :
              LET g == c.gets[i] IN
              /\ g.key = rows[i].id
              /\ (g.pc = "done" /\ ~Failed(g)) =>
                   LET fpath == getFullPath(rows[i], WsRoot) IN
                   /\ fpath \in DOMAIN files
                   /\ g.resp = Some(GetParse(rows[i], fpath, g.key, files[fpath]))
              /\ (g.pc = "done" /\ Failed(g)) =>
                   Val(g.resp) \in
                     {RespError(e) : e \in StoreErrors(g.io[Len(g.io)], g.key, g.fpath)}
         /\ c.pc = "done" =>
              /\ IsSubSeqOf(Val(Val(c.resp).data),
                            [i \in 1..N |-> Val(Val(c.gets[i].resp).data)], (1..N) \ bad)
              /\ bad # {} =>
                   IsSubSeqOf(Val(Val(c.resp).error).errors,
                              [i \in 1..N |-> Val(Val(c.gets[i].resp).error)], bad)
              /\ bad = {} => Val(c.resp).error = None

\* A find over two rows has returned both notes in the order of the rows,
\* the get of the second row having returned before the get of the first.
C19_Witness ==
  \E p \in Procs :
    /\ FindFannedOut(call[p]) /\ call[p].pc = "done"
    /\ call[p].settled = <<2, 1>>
    /\ Len(Val(Val(call[p].resp).data)) = 2
    /\ Val(Val(call[p].resp).data)[1].id = Val(call[p].metadata)[1].id
    /\ Val(Val(call[p].resp).data)[2].id = Val(call[p].metadata)[2].id

====
